---- MODULE Spec2Model ----
(***************************************************************************)
(* devc_to_docker: the capture-and-fold pipeline of devc_to_docker.py.     *)
(*                                                                         *)
(* One pipeline run is a sequential process; pc is its position.  Every    *)
(* engine call (_run_docker) either succeeds or raises CalledProcessError, *)
(* which the model draws with \E ok \in BOOLEAN.  Paths are pathlib        *)
(* `parts` tuples: an absolute path starts with the part "/".              *)
(***************************************************************************)
EXTENDS Integers, Sequences, FiniteSets, TLC

\* Longest list of mount descriptors an inspect result carries.
MaxMounts == 2

None == "None"

(***************************************************************************)
(* pathlib                                                                 *)
(***************************************************************************)
\* Path(str): a raw string is given split at "/", with "/" itself as first
\* element when the string starts with it; Path drops "." components, so
\* Path("") == Path(".") == the empty parts tuple.
PathOf(raw) == SelectSeq(raw, LAMBDA s : s # ".")

IsAbsolute(p) == Len(p) > 0 /\ p[1] = "/"

\* left / right
Join(l, r) == IF IsAbsolute(r) THEN r ELSE l \o r

\* p.parent: Path(".").parent == Path("."), Path("/").parent == Path("/")
Parent(p) ==
  IF Len(p) = 0 \/ p = <<"/">> THEN p ELSE SubSeq(p, 1, Len(p) - 1)

\* What the operating system makes of an absolute path: ".." steps up and
\* stops at the root.  pathlib itself never does this.
RECURSIVE ResolveFrom(_, _)
ResolveFrom(done, rest) ==
  IF rest = <<>> THEN done
  ELSE IF Head(rest) = ".."
       THEN ResolveFrom(IF Len(done) > 1 THEN SubSeq(done, 1, Len(done) - 1)
                        ELSE done, Tail(rest))
       ELSE ResolveFrom(Append(done, Head(rest)), Tail(rest))

Resolve(p) == ResolveFrom(<<"/">>, Tail(p))

IsPrefix(p, q) == Len(p) <= Len(q) /\ SubSeq(q, 1, Len(p)) = p

(***************************************************************************)
(* A file system: a set of entries, one per existing path.  org says which *)
(* mount (by position in bind_mounts) the entry was copied for; 0 is       *)
(* content that was there before the run.                                  *)
(***************************************************************************)
Entry(p, k, o) == [path |-> p, kind |-> k, org |-> o]

Exists(fs, p) == \E e \in fs : e.path = p
IsDir(fs, p) == \E e \in fs : e.path = p /\ e.kind = "d"

\* shutil.rmtree / unlink / rm -rf of the entry at p
RemoveTree(fs, p) == {e \in fs : ~IsPrefix(p, e.path)}

\* every proper ancestor of p and p itself
Ancestors(p) == {SubSeq(p, 1, n) : n \in 1..Len(p)}

\* mkdir(parents=True, exist_ok=True) / mkdir -p: fails on a non-directory
MkdirPOk(fs, p) == \A a \in Ancestors(p) : Exists(fs, a) => IsDir(fs, a)
MkdirP(fs, p) ==
  fs \cup {Entry(a, "d", 0) : a \in {b \in Ancestors(p) : ~Exists(fs, b)}}

\* entries written into fs; an entry already at a written path is replaced
Place(fs, new) == {e \in fs : ~\E n \in new : n.path = e.path} \cup new

\* copy of a tree (entries with paths relative to its root) to target,
\* every copied entry marked as copied for mount o
PlaceTree(fs, tree, target, o) ==
  Place(fs, {Entry(target \o e.path, e.kind, o) : e \in tree})

\* the tree rooted at p, paths made relative to p
TreeAt(fs, p) ==
  {Entry(SubSeq(e.path, Len(p) + 1, Len(e.path)), e.kind, e.org) :
     e \in {x \in fs : IsPrefix(p, x.path)}}

(***************************************************************************)
(* The world the run starts in: the source container as the engine         *)
(* reports it, and the host's bind mount sources.                          *)
(***************************************************************************)
HostP == <<"/", "host", "p">>       \* a directory on the host
HostF == <<"/", "host", "f">>       \* a regular file on the host
HostGone == <<"/", "host", "gone">> \* a path that no longer exists

\* mount.source.exists(): Path("") is the working directory, which exists
SourceExists(src) == src # HostGone
\* mount.source.is_dir()
SourceIsDir(src) == src \notin {HostF, HostGone}

\* the tree below an existing source, paths relative to the source
SourceTree(src) ==
  IF SourceIsDir(src)
  THEN {Entry(<<>>, "d", 0), Entry(<<"f">>, "f", 0), Entry(<<"b">>, "d", 0)}
  ELSE {Entry(<<>>, "f", 0)}

Desc(t, s, d) == [Type |-> t, Source |-> s, Destination |-> d]

\* raw Destination strings of directory mounts: "/", "/a", "/a/b",
\* "/../a" and ""
RawDestinations ==
  { <<"/">>, <<"/", "a">>, <<"/", "a", "b">>, <<"/", "..", "a">>, <<>> }

\* the mount descriptors an inspect result is built from
Descriptors ==
  {Desc("volume", <<"/", "var", "v">>, <<"/", "data">>)}
    \cup {Desc("bind", HostP, d) : d \in RawDestinations}
    \cup {Desc("bind", <<>>, <<"/", "a">>),
          Desc("bind", HostGone, <<"/", "a">>),
          Desc("bind", HostF, <<"/", "b", ".">>)}

RECURSIVE SeqsUpTo(_, _)
SeqsUpTo(S, n) ==
  IF n = 0 THEN {<<>>}
  ELSE LET shorter == SeqsUpTo(S, n - 1)
       IN shorter \cup {Append(q, x) : q \in {r \in shorter : Len(r) = n - 1},
                                         x \in S}

MountLists == SeqsUpTo(Descriptors, MaxMounts)

\* JSON values of the inspected Config: null, a string or a list of strings
JNull == [t |-> "null", v |-> <<>>]
JStr(x) == [t |-> "str", v |-> <<x>>]
JList(l) == [t |-> "list", v |-> l]
\* Python truthiness of such a value (None, "" and [] are falsy)
Truthy(j) ==
  \/ j.t = "list" /\ Len(j.v) > 0
  \/ j.t = "str" /\ j.v[1] # ""

\* inspected Config objects; isnull marks a Config that is a JSON null
Cfg(e, c, w, u) ==
  [isnull |-> FALSE, Entrypoint |-> e, Cmd |-> c, WorkingDir |-> w, User |-> u]
NullConfig ==
  [isnull |-> TRUE, Entrypoint |-> JNull, Cmd |-> JNull, WorkingDir |-> JNull,
   User |-> JNull]
ListValues == {JNull, JList(<<>>), JList(<<"/bin/bash">>), JList(<<"run", "it">>)}
TextValues == {JNull, JStr(""), JStr("/app")}
AllConfigs ==
  {Cfg(e, c, w, u) : e \in ListValues, c \in ListValues,
                     w \in TextValues, u \in TextValues}
\* the configurations the full pipeline is run with
PipelineConfigs ==
  {NullConfig, Cfg(JList(<<"/bin/bash">>), JNull, JStr("/app"), JStr(""))}

\* content the image already holds where mounts will be restored (it was
\* hidden below the bind mounts while the source container ran)
StaleTree ==
  {Entry(<<"/">>, "d", 0),
   Entry(<<"/", "a">>, "d", 0), Entry(<<"/", "a", "old">>, "f", 0),
   Entry(<<"/", "b">>, "d", 0), Entry(<<"/", "b", "f">>, "f", 0)}

(***************************************************************************)
(* _extract_bind_mounts (lines 72-82)                                      *)
(***************************************************************************)
\* `not source` for a pathlib.Path: Path defines neither __bool__ nor
\* __len__, so every Path, Path("") included, is truthy
PathIsFalsy(p) == FALSE

BindMount(s, d) == [source |-> s, destination |-> d]

RECURSIVE _extract_bind_mounts(_)
_extract_bind_mounts(mounts) ==
  IF mounts = <<>> THEN <<>>
  ELSE LET mount == Head(mounts)
           source == PathOf(mount.Source)
           destination == PathOf(mount.Destination)
           rest == _extract_bind_mounts(Tail(mounts))
       IN IF mount.Type # "bind" THEN rest
          ELSE IF PathIsFalsy(source) THEN rest
          ELSE <<BindMount(source, destination)>> \o rest

(***************************************************************************)
(* _copy_bind_mounts_to_tmp (lines 97-126), one mount                      *)
(***************************************************************************)
TempDir == <<"/", "tmp", "t">>

\* (variant: the check of lines 105-106 left out)
DestinationIsRootUnchecked(destination) == FALSE

\* lines 103-109: the destination made relative
DestinationIsRoot(destination) ==
  IsAbsolute(destination) /\ Tail(destination) = <<>>
Relative(destination) ==
  IF IsAbsolute(destination) THEN Tail(destination) ELSE destination

\* line 111
HostTarget(temp_dir, destination) == Join(temp_dir, Relative(destination))

CopySpec(d, h) == [destination |-> d, host_path |-> h]

\* lines 112-122 on the host file system; n is the mount's position
StageFs(fs, mount, host_target, n) ==
  LET target == Resolve(host_target)
      made == MkdirP(fs, Resolve(Parent(host_target)))
      cleared == IF Exists(made, target) THEN RemoveTree(made, target) ELSE made
  IN PlaceTree(cleared, SourceTree(mount.source), target, n)

(***************************************************************************)
(* _restore_bind_mounts (lines 146-167), one CopySpec, on the disposable   *)
(* container's file system                                                 *)
(***************************************************************************)
\* line 150
DestinationParent(destination) ==
  IF Parent(destination) # destination THEN Parent(destination) ELSE <<"/">>

\* a path as the container resolves it; docker cp takes a relative
\* container path from the container's root
InContainer(p) == IF IsAbsolute(p) THEN Resolve(p) ELSE Resolve(<<"/">> \o p)

\* rm refuses ".", a path ending in ".." and the root (exit status 1)
RmRefuses(p) ==
  \/ p = <<>>
  \/ p[Len(p)] = ".."
  \/ InContainer(p) = <<"/">>

\* (variant: the removal of line 156 removing nothing)
ExecRmNothing(fs, destination) == fs

\* line 156: rm -rf destination_str
ExecRmOk(fs, destination) == ~RmRefuses(destination)
ExecRm(fs, destination) == RemoveTree(fs, InContainer(destination))

\* line 161: mkdir -p parent_str
ExecMkdirOk(fs, parent) == MkdirPOk(fs, InContainer(parent))
ExecMkdir(fs, parent) == MkdirP(fs, InContainer(parent))

\* line 166: docker cp host_path container:parent_str.  The archive of the
\* host path is unpacked in the parent under the host path's own last name;
\* it is merged into what is there and cannot replace a directory by a file
\* or a file by a directory.
CpEntries(host, host_path, parent) ==
  LET src == Resolve(host_path)
      target == Append(InContainer(parent), src[Len(src)])
  IN {Entry(target \o e.path, e.kind, e.org) : e \in TreeAt(host, src)}
CpOk(fs, host, host_path, parent) ==
  /\ Exists(host, Resolve(host_path))
  /\ IsDir(fs, InContainer(parent))
  /\ \A n \in CpEntries(host, host_path, parent) :
       \A e \in fs : e.path = n.path => e.kind = n.kind
Cp(fs, host, host_path, parent) == Place(fs, CpEntries(host, host_path, parent))

(***************************************************************************)
(* _build_commit_changes (lines 170-193)                                   *)
(***************************************************************************)
Quote(x) == "\"" \o x \o "\""

RECURSIVE JoinQuoted(_)
JoinQuoted(l) ==
  IF Len(l) = 0 THEN ""
  ELSE IF Len(l) = 1 THEN Quote(l[1])
  ELSE Quote(l[1]) \o ", " \o JoinQuoted(Tail(l))

\* json.dumps of a list of strings or of a string
JsonDumps(j) ==
  IF j.t = "list" THEN "[" \o JoinQuoted(j.v) \o "]"
  ELSE IF j.t = "str" THEN Quote(j.v[1])
  ELSE "null"

\* the directive f"{keyword} {text}"
Directive(k, x) == [keyword |-> k, text |-> x]

\* (variant: entrypoint and command emitted only when set, lines 177-178
\* and 182-183 left out)
BuildCommitChangesOnlySet(config) ==
  (IF Truthy(config.Entrypoint)
   THEN <<Directive("ENTRYPOINT", JsonDumps(config.Entrypoint))>> ELSE <<>>)
  \o (IF Truthy(config.Cmd)
      THEN <<Directive("CMD", JsonDumps(config.Cmd))>> ELSE <<>>)
  \o (IF Truthy(config.WorkingDir)
      THEN <<Directive("WORKDIR", config.WorkingDir.v[1])>> ELSE <<>>)
  \o (IF Truthy(config.User)
      THEN <<Directive("USER", config.User.v[1])>> ELSE <<>>)

_build_commit_changes(config) ==
  LET entrypoint == config.Entrypoint
      cmd == config.Cmd
      work_dir == config.WorkingDir
      user == config.User
  IN <<IF Truthy(entrypoint)
       THEN Directive("ENTRYPOINT", JsonDumps(entrypoint))
       ELSE Directive("ENTRYPOINT", "[]")>>
     \o <<IF Truthy(cmd)
          THEN Directive("CMD", JsonDumps(cmd))
          ELSE Directive("CMD", "[]")>>
     \o (IF Truthy(work_dir)
         THEN <<Directive("WORKDIR", work_dir.v[1])>> ELSE <<>>)
     \o (IF Truthy(user) THEN <<Directive("USER", user.v[1])>> ELSE <<>>)

(***************************************************************************)
(* The engine's side of run and commit                                     *)
(***************************************************************************)
\* _start_keepalive_container (lines 129-143): --entrypoint /bin/sh and the
\* arguments -lc <keepalive> are the disposable container's configuration
KeepaliveMeta ==
  [Entrypoint |-> "[\"/bin/sh\"]",
   Cmd |-> "[\"-lc\", \"while true; do sleep 3600; done\"]",
   WorkingDir |-> "", User |-> ""]

\* commit --change: each directive replaces the field of its keyword
ApplyChange(meta, change) ==
  IF change.keyword = "ENTRYPOINT" THEN [meta EXCEPT !.Entrypoint = change.text]
  ELSE IF change.keyword = "CMD" THEN [meta EXCEPT !.Cmd = change.text]
  ELSE IF change.keyword = "WORKDIR" THEN [meta EXCEPT !.WorkingDir = change.text]
  ELSE IF change.keyword = "USER" THEN [meta EXCEPT !.User = change.text]
  ELSE meta

RECURSIVE ApplyChanges(_, _)
ApplyChanges(meta, changes) ==
  IF changes = <<>> THEN meta
  ELSE ApplyChanges(ApplyChange(meta, Head(changes)), Tail(changes))

(***************************************************************************)
(* Names and tags (lines 85-87, 212-220, 237-239); a name is a tuple of    *)
(* characters                                                              *)
(***************************************************************************)
Lower == {"a", "b", "c", "d", "e", "f", "g", "h", "i", "j", "k", "l", "m",
          "n", "o", "p", "q", "r", "s", "t", "u", "v", "w", "x", "y", "z"}
Upper == {"A", "B", "C", "D", "E", "F", "G", "H", "I", "J", "K", "L", "M",
          "N", "O", "P", "Q", "R", "S", "T", "U", "V", "W", "X", "Y", "Z"}
Digits == {"0", "1", "2", "3", "4", "5", "6", "7", "8", "9"}
\* the class [a-zA-Z0-9_.-]
SafeChars == Lower \cup Upper \cup Digits \cup {"_", ".", "-"}

RECURSIVE LStrip(_, _)
LStrip(x, chars) ==
  IF x # <<>> /\ Head(x) \in chars THEN LStrip(Tail(x), chars) ELSE x
RECURSIVE RStrip(_, _)
RStrip(x, chars) ==
  IF x # <<>> /\ x[Len(x)] \in chars
  THEN RStrip(SubSeq(x, 1, Len(x) - 1), chars) ELSE x

\* (variant: the strip("-.") of line 86 left out)
SanitizeWithoutStrip(name) ==
  [i \in 1..Len(name) |-> IF name[i] \in SafeChars THEN name[i] ELSE "-"]

_sanitize_name(name) ==
  LET replaced == [i \in 1..Len(name) |->
                     IF name[i] \in SafeChars THEN name[i] ELSE "-"]
      sanitized == RStrip(LStrip(replaced, {"-", "."}), {"-", "."})
  IN IF sanitized # <<>> THEN sanitized
     ELSE <<"c", "o", "n", "t", "a", "i", "n", "e", "r">>

\* the engine's limit on a container name (line 238)
NameLimit == 60

DefaultOutputImage(sanitized_name, timestamp) ==
  <<"d", "e", "v", "c", "_", "t", "o", "_", "d", "o", "c", "k", "e", "r", "/">>
    \o sanitized_name \o <<":">> \o timestamp
DefaultIntermediateImage(output) == output \o <<"-", "s", "t", "a", "g", "e">>
TempContainerName(sanitized_name, timestamp) ==
  LET full == <<"d", "e", "v", "c", "-", "t", "o", "-", "d", "o", "c", "k", "e",
                "r", "-">> \o sanitized_name \o <<"-">> \o timestamp
  IN IF Len(full) > NameLimit THEN SubSeq(full, 1, NameLimit) ELSE full

\* the argument left out (None) is the empty tuple
ContainerId == <<"a", "b", "c">>
UserTag == <<"a", "p", "p", ":", "1">>
TagArgs == {<<>>, UserTag}
Timestamps == {<<"2", "0", "2", "4", "0", "1", "0", "1", "1", "2", "0", "0",
                 "0", "0">>}

\* inspected names (line 212): the spec's "My App!", two names the engine
\* accepts that differ in a trailing "-", a name of stripped characters only,
\* and two names of 46 characters that differ in the last
LongName(last) == <<"/">> \o [i \in 1..45 |-> "x"] \o <<last>>
ContainerNames ==
  {<<"/", "M", "y", " ", "A", "p", "p", "!">>,
   <<"/", "d", "e", "v">>,
   <<"/", "d", "e", "v", "-">>,
   <<"/", "-", "-">>,
   LongName("1"), LongName("2")}
\* the seconds two concurrent runs read their clocks in
ConcurrentTimestamps ==
  Timestamps \cup {<<"2", "0", "2", "4", "0", "1", "0", "1", "1", "2", "0", "0",
                     "0", "1">>}

(***************************************************************************)
(* State                                                                   *)
(***************************************************************************)
VARIABLES
  pc,                 \* position of the run in devc_to_docker
  exc,                \* the exception raised, "none" while there is none
  docker_on_path,     \* shutil.which("docker") finds the engine
  source,             \* the source container as the engine holds it
  now,                \* datetime.utcnow() formatted
  output_arg,         \* parameter output_image
  intermediate_arg,   \* parameter intermediate_image
  keep_temp,
  keep_intermediate,
  inspect_info,
  sanitized_name,
  output_image,
  intermediate_image,
  bind_mounts,
  temp_dir,           \* <<>> until created
  copies,
  n,                  \* position in the list a loop is working through
  temp_container_name,
  changes,
  hostfs,             \* the host's file system below /tmp
  cfs,                \* the disposable container's file system
  dstate,             \* disposable container: absent, created, running, exited
  images,             \* the engine's tagged images
  final_meta,         \* <<metadata of the image of the final commit>>
  other,              \* a concurrent run of devc_to_docker on the same engine
  log                 \* the operations issued, in order, with their outcome

inputs ==
  <<docker_on_path, source, now, output_arg, intermediate_arg, keep_temp,
    keep_intermediate>>
locals ==
  <<inspect_info, sanitized_name, output_image, intermediate_image,
    bind_mounts, temp_dir, copies, n, temp_container_name, changes>>
world == <<hostfs, cfs, dstate, images, final_meta, other>>
vars == <<pc, exc, inputs, locals, world, log>>

Op(name, ok, k) == [op |-> name, ok |-> ok, n |-> k]

SourceContainers(lists, configs) ==
  {[found |-> FALSE, Name |-> <<>>, Mounts |-> <<>>, Config |-> NullConfig,
    stale |-> {}]}
    \cup {[found |-> TRUE, Name |-> <<"/", "d", "e", "v">>, Mounts |-> m,
           Config |-> c, stale |-> StaleTree] : m \in lists, c \in configs}

\* source containers of the given names, each with the bind mount
\* /host/p -> /a
NamedContainers(names) ==
  {[found |-> TRUE, Name |-> nm,
    Mounts |-> <<Desc("bind", HostP, <<"/", "a">>)>>,
    Config |-> Cfg(JList(<<"/bin/bash">>), JNull, JStr("/app"), JStr("")),
    stale |-> StaleTree] : nm \in names}

\* A concurrent run against the source container Name, reading its clock
\* as now: state is "idle" before its line 241, then "running" (its
\* disposable container was started) or "failed"; "exited" and "removed"
\* are what stop and rm make of its container.  NoOther: no such run.
OtherRun(nm, ts) ==
  [Name |-> nm, now |-> ts, temp_container_name |-> <<>>, state |-> "idle"]
NoOther ==
  [Name |-> <<>>, now |-> <<>>, temp_container_name |-> <<>>, state |-> "none"]
\* the engine's name space: the other run's container holds the name
Holds(o, name) ==
  o.state \in {"running", "exited"} /\ o.temp_container_name = name

NoInfo == [Name |-> <<>>, Mounts |-> <<>>, Config |-> NullConfig]

InitOf(sources, others) ==
  /\ pc = "start"
  /\ exc = "none"
  /\ docker_on_path \in BOOLEAN
  /\ source \in sources
  /\ other \in others
  /\ now \in Timestamps
  /\ output_arg \in TagArgs
  /\ intermediate_arg \in TagArgs
  /\ keep_temp \in BOOLEAN
  /\ keep_intermediate \in BOOLEAN
  /\ inspect_info = NoInfo
  /\ sanitized_name = <<>>
  /\ output_image = <<>>
  /\ intermediate_image = <<>>
  /\ bind_mounts = <<>>
  /\ temp_dir = <<>>
  /\ copies = <<>>
  /\ n = 0
  /\ temp_container_name = <<>>
  /\ changes = <<>>
  /\ hostfs = {Entry(<<"/">>, "d", 0), Entry(<<"/", "tmp">>, "d", 0)}
  /\ cfs = {}
  /\ dstate = "absent"
  /\ images = {}
  /\ final_meta = <<>>
  /\ log = <<>>

InitWith(sources) == InitOf(sources, {NoOther})

Init == InitWith(SourceContainers(MountLists, PipelineConfigs))

\* an exception that leaves devc_to_docker at once (outside the try block)
Abort(e) == pc' = "failed" /\ exc' = e

\* (variant: no finally block around lines 244-253)
RaiseWithoutFinally(e) == pc' = "failed" /\ exc' = e

\* an exception inside the try block: the finally block runs first
Raise(e) == pc' = "stop" /\ exc' = e

\* (variant: the finally block swallowing the pending exception)
AfterFinallySwallowing(e) == "cleanup"

\* the end of the finally block (line 267): a pending exception is raised
\* again, otherwise line 269 is next
AfterFinally(e) == IF e = "none" THEN "cleanup" ELSE "failed"

\* the engine's image store: commit moves the tag to the new image
Retag(imgs, tag, kind) ==
  {i \in imgs : i.tag # tag} \cup {[tag |-> tag, kind |-> kind]}
Tagged(imgs, tag) == \E i \in imgs : i.tag = tag
\* rmi refuses a tag whose image a container still uses; the disposable
\* container was started from the intermediate ("stage") image
InUse(imgs, tag, ds) ==
  ds # "absent" /\ \E i \in imgs : i.tag = tag /\ i.kind = "stage"

(***************************************************************************)
(* devc_to_docker (lines 196-281), one action per step                     *)
(***************************************************************************)
\* line 209
EnsureDockerAvailable ==
  /\ pc = "start"
  /\ IF docker_on_path THEN pc' = "inspect" /\ exc' = exc
     ELSE Abort("EngineUnavailable")
  /\ UNCHANGED <<inputs, locals, world, log>>

\* line 210, _inspect_container (lines 64-69)
InspectContainer ==
  /\ pc = "inspect"
  /\ \E ok \in BOOLEAN :
       /\ log' = Append(log, Op("inspect", ok, 0))
       /\ IF ~ok THEN Abort("CalledProcessError") /\ inspect_info' = inspect_info
          ELSE IF ~source.found
               THEN Abort("NotFound") /\ inspect_info' = inspect_info
               ELSE /\ pc' = "derive"
                    /\ exc' = exc
                    /\ inspect_info' = [Name |-> source.Name,
                                        Mounts |-> source.Mounts,
                                        Config |-> source.Config]
  /\ UNCHANGED <<inputs, sanitized_name, output_image, intermediate_image,
                 bind_mounts, temp_dir, copies, n, temp_container_name,
                 changes, world>>

\* lines 212-220
DeriveIdentifiers ==
  /\ pc = "derive"
  /\ LET stripped == LStrip(inspect_info.Name, {"/"})
         container_name == IF stripped # <<>> THEN stripped ELSE ContainerId
         out == IF output_arg = <<>>
                THEN DefaultOutputImage(_sanitize_name(container_name), now)
                ELSE output_arg
     IN /\ sanitized_name' = _sanitize_name(container_name)
        /\ output_image' = out
        /\ intermediate_image' = IF intermediate_arg = <<>>
                                 THEN DefaultIntermediateImage(out)
                                 ELSE intermediate_arg
  /\ pc' = "extract"
  /\ UNCHANGED <<exc, inputs, inspect_info, bind_mounts, temp_dir, copies, n,
                 temp_container_name, changes, world, log>>

\* (variant: lines 223-224 left out)
ExtractBindMountsUnchecked ==
  /\ pc = "extract"
  /\ bind_mounts' = _extract_bind_mounts(inspect_info.Mounts)
  /\ pc' = "commit_stage"
  /\ UNCHANGED <<exc, inputs, inspect_info, sanitized_name, output_image,
                 intermediate_image, temp_dir, copies, n, temp_container_name,
                 changes, world, log>>

\* lines 222-224
ExtractBindMounts ==
  /\ pc = "extract"
  /\ bind_mounts' = _extract_bind_mounts(inspect_info.Mounts)
  /\ IF bind_mounts' = <<>> THEN Abort("NoBindMounts")
     ELSE pc' = "commit_stage" /\ exc' = exc
  /\ UNCHANGED <<inputs, inspect_info, sanitized_name, output_image,
                 intermediate_image, temp_dir, copies, n, temp_container_name,
                 changes, world, log>>

\* line 229
CommitIntermediate ==
  /\ pc = "commit_stage"
  /\ \E ok \in BOOLEAN :
       /\ log' = Append(log, Op("commit_stage", ok, 0))
       /\ IF ok
          THEN /\ images' = Retag(images, intermediate_image, "stage")
               /\ pc' = "mktemp"
               /\ exc' = exc
          ELSE Abort("CalledProcessError") /\ images' = images
  /\ UNCHANGED <<inputs, locals, hostfs, cfs, dstate, final_meta, other>>

\* line 233, _resolve_temp_dir (lines 90-94)
ResolveTempDir ==
  /\ pc = "mktemp"
  /\ temp_dir' = TempDir
  /\ hostfs' = MkdirP(hostfs, TempDir)
  /\ log' = Append(log, Op("mkdtemp", TRUE, 0))
  /\ n' = 1
  /\ pc' = "stage"
  /\ UNCHANGED <<exc, inputs, inspect_info, sanitized_name, output_image,
                 intermediate_image, bind_mounts, copies, temp_container_name,
                 changes, cfs, dstate, images, final_meta, other>>

\* line 235, _copy_bind_mounts_to_tmp (lines 97-126): the loop body for the
\* n-th mount, and the return after the last
StageMount ==
  /\ pc = "stage"
  /\ LET mount == bind_mounts[n]
         destination == mount.destination
         host_target == HostTarget(temp_dir, destination)
         stay == /\ hostfs' = hostfs /\ copies' = copies /\ n' = n
                 /\ log' = log
     IN IF ~SourceExists(mount.source) THEN Abort("SourceMissing") /\ stay
        ELSE IF DestinationIsRoot(destination)
        THEN Abort("InvalidDestination") /\ stay
        ELSE IF ~MkdirPOk(hostfs, Resolve(Parent(host_target)))
        THEN Abort("FileExistsError") /\ stay
        ELSE /\ hostfs' = StageFs(hostfs, mount, host_target, n)
             /\ copies' = Append(copies, CopySpec(destination, host_target))
             /\ log' = Append(log, Op("copy", TRUE, n))
             /\ n' = n + 1
             /\ pc' = IF n = Len(bind_mounts) THEN "run" ELSE "stage"
             /\ exc' = exc
  /\ UNCHANGED <<inputs, inspect_info, sanitized_name, output_image,
                 intermediate_image, bind_mounts, temp_dir,
                 temp_container_name, changes, cfs, dstate, images, final_meta,
                 other>>

\* (variant: line 241 inside the try block of line 243)
StartFailedInsideTry(e) == Raise(e)

\* line 241 is outside the try block: its exception leaves devc_to_docker
StartFailed(e) == Abort(e)

\* lines 237-241, _start_keepalive_container (lines 129-143).  A failed run
\* may or may not leave the container behind in the created state.
StartKeepalive ==
  /\ pc = "run"
  /\ temp_container_name' = TempContainerName(sanitized_name, now)
  /\ \E ok \in BOOLEAN :
       /\ ok => /\ Tagged(images, intermediate_image)
                /\ ~Holds(other, temp_container_name')
       /\ log' = Append(log, Op("run", ok, 0))
       /\ IF ok
          THEN /\ dstate' = "running"
               /\ cfs' = source.stale
               /\ n' = 1
               /\ pc' = "restore_rm"
               /\ exc' = exc
          ELSE /\ StartFailed("CalledProcessError")
               /\ dstate' \in {"absent", "created"}
               /\ dstate' = "created" => ~Holds(other, temp_container_name')
               /\ cfs' = cfs
               /\ n' = n
  /\ UNCHANGED <<inputs, inspect_info, sanitized_name, output_image,
                 intermediate_image, bind_mounts, temp_dir, copies, changes,
                 hostfs, images, final_meta, other>>

restore_frame ==
  <<inputs, inspect_info, sanitized_name, output_image, intermediate_image,
    bind_mounts, temp_dir, copies, temp_container_name, changes, hostfs,
    dstate, images, final_meta, other>>

\* lines 155-158: best-effort removal of what is at the destination
RestoreRemove ==
  /\ pc = "restore_rm"
  /\ LET destination == copies[n].destination
     IN \E ok \in BOOLEAN :
          /\ ok => ExecRmOk(cfs, destination)
          /\ log' = Append(log, Op("exec_rm", ok, n))
          /\ cfs' = IF ok THEN ExecRm(cfs, destination) ELSE cfs
  /\ pc' = "restore_mkdir"
  /\ UNCHANGED <<exc, n, restore_frame>>

\* (variant: a failed mkdir -p only warned about, as the removal is)
RestoreMkdirBestEffort ==
  /\ pc = "restore_mkdir"
  /\ LET parent == DestinationParent(copies[n].destination)
     IN \E ok \in BOOLEAN :
          /\ ok => ExecMkdirOk(cfs, parent)
          /\ log' = Append(log, Op("exec_mkdir", ok, n))
          /\ cfs' = IF ok THEN ExecMkdir(cfs, parent) ELSE cfs
  /\ pc' = "restore_cp"
  /\ UNCHANGED <<exc, n, restore_frame>>

\* lines 160-163
RestoreMkdir ==
  /\ pc = "restore_mkdir"
  /\ LET parent == DestinationParent(copies[n].destination)
     IN \E ok \in BOOLEAN :
          /\ ok => ExecMkdirOk(cfs, parent)
          /\ log' = Append(log, Op("exec_mkdir", ok, n))
          /\ IF ok
             THEN cfs' = ExecMkdir(cfs, parent) /\ pc' = "restore_cp" /\ exc' = exc
             ELSE cfs' = cfs /\ Raise("RestoreFailed")
  /\ UNCHANGED <<n, restore_frame>>

\* (variant: the outcome of the docker cp of line 166 not checked)
RestoreCopyUnchecked ==
  /\ pc = "restore_cp"
  /\ LET spec == copies[n]
         parent == DestinationParent(spec.destination)
     IN \E ok \in BOOLEAN :
          /\ ok => CpOk(cfs, hostfs, spec.host_path, parent)
          /\ log' = Append(log, Op("cp", ok, n))
          /\ cfs' = IF ok THEN Cp(cfs, hostfs, spec.host_path, parent) ELSE cfs
          /\ n' = n + 1
          /\ pc' = IF n = Len(copies) THEN "translate" ELSE "restore_rm"
          /\ exc' = exc
  /\ UNCHANGED restore_frame

\* lines 165-167, and the end of the loop
RestoreCopy ==
  /\ pc = "restore_cp"
  /\ LET spec == copies[n]
         parent == DestinationParent(spec.destination)
     IN \E ok \in BOOLEAN :
          /\ ok => CpOk(cfs, hostfs, spec.host_path, parent)
          /\ log' = Append(log, Op("cp", ok, n))
          /\ IF ok
             THEN /\ cfs' = Cp(cfs, hostfs, spec.host_path, parent)
                  /\ n' = n + 1
                  /\ pc' = IF n = Len(copies) THEN "translate" ELSE "restore_rm"
                  /\ exc' = exc
             ELSE cfs' = cfs /\ n' = n /\ Raise("CalledProcessError")
  /\ UNCHANGED restore_frame

\* lines 246-250; None has no attribute get
BuildCommitChanges ==
  /\ pc = "translate"
  /\ IF inspect_info.Config.isnull
     THEN Raise("AttributeError") /\ changes' = changes
     ELSE /\ changes' = _build_commit_changes(inspect_info.Config)
          /\ pc' = "commit_final"
          /\ exc' = exc
  /\ UNCHANGED <<inputs, inspect_info, sanitized_name, output_image,
                 intermediate_image, bind_mounts, temp_dir, copies, n,
                 temp_container_name, world, log>>

\* lines 251-253
FinalCommit ==
  /\ pc = "commit_final"
  /\ \E ok \in BOOLEAN :
       /\ ok => dstate # "absent"
       /\ log' = Append(log, Op("commit_final", ok, 0))
       /\ IF ok
          THEN /\ images' = Retag(images, output_image, "final")
               /\ final_meta' = <<ApplyChanges(KeepaliveMeta, changes)>>
               /\ pc' = "stop"
               /\ exc' = exc
          ELSE images' = images /\ final_meta' = final_meta
               /\ Raise("CalledProcessError")
  /\ UNCHANGED <<inputs, locals, hostfs, cfs, dstate, other>>

\* lines 255-258; the engine stops the container that holds the name
StopContainer ==
  /\ pc = "stop"
  /\ \E ok \in BOOLEAN :
       /\ ok => dstate # "absent" \/ Holds(other, temp_container_name)
       /\ log' = Append(log, Op("stop", ok, 0))
       /\ dstate' = IF ok /\ dstate # "absent" THEN "exited" ELSE dstate
       /\ other' = IF ok /\ dstate = "absent"
                   THEN [other EXCEPT !.state = "exited"] ELSE other
  /\ pc' = "rm"
  /\ UNCHANGED <<exc, inputs, locals, hostfs, cfs, images, final_meta>>

\* lines 259-262; the engine removes no running container
RemoveContainer ==
  /\ pc = "rm"
  /\ \E ok \in BOOLEAN :
       /\ ok => \/ dstate \in {"created", "exited"}
                \/ /\ dstate = "absent"
                   /\ Holds(other, temp_container_name)
                   /\ other.state = "exited"
       /\ log' = Append(log, Op("rm", ok, 0))
       /\ dstate' = IF ok THEN "absent" ELSE dstate
       /\ other' = IF ok /\ dstate = "absent"
                   THEN [other EXCEPT !.state = "removed"] ELSE other
  /\ pc' = "rmtree"
  /\ UNCHANGED <<exc, inputs, locals, hostfs, cfs, images, final_meta>>

\* lines 263-267 and the end of the finally block: a pending exception is
\* raised again.  rmtree(ignore_errors=True) may leave the directory.
RemoveTempDir ==
  /\ pc = "rmtree"
  /\ IF ~keep_temp
     THEN \E ok \in BOOLEAN :
            /\ log' = Append(log, Op("rmtree", ok, 0))
            /\ hostfs' = IF ok THEN RemoveTree(hostfs, temp_dir) ELSE hostfs
     ELSE log' = log /\ hostfs' = hostfs
  /\ pc' = AfterFinally(exc)
  /\ UNCHANGED <<exc, inputs, locals, cfs, dstate, images, final_meta, other>>

\* lines 269-281
RemoveIntermediate ==
  /\ pc = "cleanup"
  /\ IF ~keep_intermediate
     THEN \E ok \in BOOLEAN :
            /\ ok => /\ Tagged(images, intermediate_image)
                     /\ ~InUse(images, intermediate_image, dstate)
            /\ log' = Append(log, Op("rmi", ok, 0))
            /\ images' = IF ok THEN {i \in images : i.tag # intermediate_image}
                         ELSE images
     ELSE log' = log /\ images' = images
  /\ pc' = "done"
  /\ UNCHANGED <<exc, inputs, locals, hostfs, cfs, dstate, final_meta,
                 other>>

Next ==
  \/ EnsureDockerAvailable
  \/ InspectContainer
  \/ DeriveIdentifiers
  \/ ExtractBindMounts
  \/ CommitIntermediate
  \/ ResolveTempDir
  \/ StageMount
  \/ StartKeepalive
  \/ RestoreRemove
  \/ RestoreMkdir
  \/ RestoreCopy
  \/ BuildCommitChanges
  \/ FinalCommit
  \/ StopContainer
  \/ RemoveContainer
  \/ RemoveTempDir
  \/ RemoveIntermediate

Spec == Init /\ [][Next]_vars

\* The pipeline over every configuration, for one container with the single
\* bind mount /host/p -> /a.
InitMeta ==
  InitWith(SourceContainers({<<Desc("bind", HostP, <<"/", "a">>)>>}, AllConfigs))
SpecMeta == InitMeta /\ [][Next]_vars

\* The pipeline over every list of mounts, run with no tag supplied.
InitDefaultTags == Init /\ output_arg = <<>> /\ intermediate_arg = <<>>
SpecDefaultTags == InitDefaultTags /\ [][Next]_vars

\* lines 237-241 of a concurrent run against another source container: it
\* derives its disposable container's name as this run does and starts the
\* container, which the engine refuses when the name is taken
OtherRunStarts ==
  /\ other.state = "idle"
  /\ LET name == TempContainerName(
                   _sanitize_name(LStrip(other.Name, {"/"})), other.now)
     IN \E ok \in BOOLEAN :
          /\ ok => ~(dstate # "absent" /\ temp_container_name = name)
          /\ other' = [other EXCEPT !.temp_container_name = name,
                                    !.state = IF ok THEN "running" ELSE "failed"]
  /\ UNCHANGED <<pc, exc, inputs, locals, hostfs, cfs, dstate, images,
                 final_meta, log>>

NextConcurrent == Next \/ OtherRunStarts

\* Two runs on one engine against two different source containers, the
\* source containers named from ContainerNames.
InitConcurrent ==
  /\ InitOf(NamedContainers(ContainerNames),
            {OtherRun(nm, ts) : nm \in ContainerNames,
                                ts \in ConcurrentTimestamps})
  /\ other.Name # source.Name
SpecConcurrent == InitConcurrent /\ [][NextConcurrent]_vars

(***************************************************************************)
(* Properties                                                              *)
(***************************************************************************)
Issued(name) == \E i \in DOMAIN log : log[i].op = name
Succeeded(name) == \E i \in DOMAIN log : log[i].op = name /\ log[i].ok
SucceededFor(name, k) ==
  \E i \in DOMAIN log : log[i].op = name /\ log[i].ok /\ log[i].n = k
AllSucceeded == \A i \in DOMAIN log : log[i].ok

\* the run failed after its disposable container had been started
FailedAfterStart == pc = "failed" /\ Succeeded("run")

TempDirRemains == Exists(hostfs, TempDir)

\* C1 as stated: after any failure that follows the start of the disposable
\* container, stop and remove have been issued, the temp directory is gone
\* unless keep_temp is set, and the disposable container is gone.
C1_AsStated ==
  FailedAfterStart =>
    /\ Issued("stop") /\ Issued("rm")
    /\ ~keep_temp => ~TempDirRemains
    /\ dstate = "absent"

\* C1 amended: after any failure that follows the start of the disposable
\* container, stop and remove have both been issued and, unless keep_temp is
\* set, the removal of the temp directory has been issued; the container
\* remains only if the engine's remove failed, the temp directory only if
\* keep_temp is set or its removal failed.
C1_TeardownIssued ==
  FailedAfterStart =>
    /\ Issued("stop") /\ Issued("rm")
    /\ ~keep_temp => Issued("rmtree")
    /\ dstate # "absent" => ~Succeeded("rm")
    /\ TempDirRemains => keep_temp \/ ~Succeeded("rmtree")
    /\ Succeeded("rm") /\ Succeeded("rmtree") => dstate = "absent" /\ ~TempDirRemains

\* C1 witness: the final commit failed, teardown ran and removed both
C1_Witness ==
  /\ FailedAfterStart
  /\ \E i \in DOMAIN log : log[i].op = "commit_final" /\ ~log[i].ok
  /\ ~keep_temp /\ ~TempDirRemains /\ dstate = "absent"

\* C2 as stated: a run that fails between the intermediate commit and the
\* start of the disposable container has removed the temp directory it
\* created (unless keep_temp is set) and has issued stop and remove for a
\* disposable container it tried to start.
C2_AsStated ==
  pc = "failed" /\ Issued("commit_stage") /\ ~Succeeded("run") =>
    /\ Issued("mkdtemp") /\ ~keep_temp => ~TempDirRemains
    /\ Issued("run") => Issued("stop") /\ Issued("rm")

\* C3: removeImage is issued only after a successful final commit, and a
\* run that fails after the intermediate commit succeeded still has the
\* intermediate image under its tag, whatever keep_intermediate is.
C3_IntermediateRetained ==
  /\ Issued("rmi") => Succeeded("commit_final")
  /\ pc = "failed" /\ Succeeded("commit_stage") =>
       /\ ~Issued("rmi")
       /\ [tag |-> intermediate_image, kind |-> "stage"] \in images

\* C3 witness: a failed run with keep_intermediate not set that got as
\* far as the final commit
C3_Witness ==
  /\ pc = "failed" /\ ~keep_intermediate /\ Issued("commit_final")
  /\ [tag |-> intermediate_image, kind |-> "stage"] \in images

\* the source container as inspected has no mount of type bind
ZeroBindMounts ==
  \A i \in DOMAIN source.Mounts : source.Mounts[i].Type # "bind"

\* nothing but inspect has been issued and nothing has been changed
NothingMutated ==
  /\ \A i \in DOMAIN log : log[i].op = "inspect"
  /\ images = {} /\ dstate = "absent" /\ cfs = {}
  /\ ~TempDirRemains /\ \A e \in hostfs : e.org = 0

\* C4: with the engine binary missing, the container not found at inspect or
\* no bind mount on the container, the run never issues a mutating operation
\* and ends in failure (NoBindMounts in the last case).
C4_NoMutationBeforeCommit ==
  ~docker_on_path \/ ~source.found \/ ZeroBindMounts =>
    /\ NothingMutated
    /\ pc # "done"
    /\ pc = "failed" =>
         exc \in {"EngineUnavailable", "CalledProcessError", "NotFound",
                  "NoBindMounts"}
    /\ pc = "failed" /\ docker_on_path /\ source.found /\ AllSucceeded =>
         exc = "NoBindMounts"

\* C4 witness: a container with mounts, none of them a bind mount, failed
\* with NoBindMounts
C4_Witness ==
  /\ pc = "failed" /\ exc = "NoBindMounts"
  /\ ZeroBindMounts /\ source.Mounts # <<>>

\* C5 as stated: a run in which every operation succeeded and no retention
\* flag is set returns with the final tag present, the intermediate tag
\* removed, the temp directory removed and the disposable container gone.
C5_AsStated ==
  pc = "done" /\ AllSucceeded /\ ~keep_temp /\ ~keep_intermediate =>
    /\ Tagged(images, output_image)
    /\ ~Tagged(images, intermediate_image)
    /\ ~TempDirRemains
    /\ dstate = "absent" /\ Succeeded("stop") /\ Succeeded("rm")

\* C5 for runs whose two tags differ (it holds there)
C5_DistinctTags ==
  output_image # intermediate_image => C5_AsStated

\* the bind mounts the Mount Extractor is specified to yield: the descriptors
\* of type bind with a non-empty Source, in order
BindWithSource(mounts) ==
  SelectSeq(mounts, LAMBDA m : m.Type = "bind" /\ m.Source # <<>>)
SourceOf(mounts) == [i \in DOMAIN mounts |-> PathOf(mounts[i].Source)]
ExtractionDone == bind_mounts # <<>> \/ exc = "NoBindMounts"

\* C6 as stated: the extracted list is, in order, the bind descriptors with a
\* non-empty Source, and a container whose bind descriptors all have an
\* empty Source fails with NoBindMounts.
C6_AsStated ==
  ExtractionDone =>
    /\ [i \in DOMAIN bind_mounts |-> bind_mounts[i].source]
         = SourceOf(BindWithSource(inspect_info.Mounts))
    /\ BindWithSource(inspect_info.Mounts) = <<>> => exc = "NoBindMounts"

\* content staged for some mount lies on the host
SomethingStaged == \E e \in hostfs : e.org # 0

\* C7 as stated: when a mount with destination / is rejected, no mount of
\* the list has been copied into the staging directory.
C7_AsStated ==
  pc = "failed" /\ exc = "InvalidDestination" =>
    /\ copies = <<>>
    /\ ~Issued("copy")
    /\ ~SomethingStaged

\* C7 amended: a mount with destination / is rejected before anything of it
\* is copied and is never staged; at the rejection exactly the mounts that
\* precede it in the list have been staged.
C7_RejectedBeforeOwnCopy ==
  /\ \A i \in DOMAIN copies : copies[i].destination # <<"/">>
  /\ pc = "failed" /\ exc = "InvalidDestination" =>
       /\ bind_mounts[n].destination = <<"/">>
       /\ Len(copies) = n - 1
       /\ \A e \in hostfs : e.org < n
       /\ \A k \in 1..Len(bind_mounts) : SucceededFor("copy", k) <=> k < n
       /\ ~Issued("run")

\* C7 witness: the second mount was rejected after the first was staged
C7_Witness ==
  /\ pc = "failed" /\ exc = "InvalidDestination"
  /\ n = 2 /\ SomethingStaged

\* the place in the file system a host path names lies below the temp dir
StrictlyInsideTempDir(p) ==
  IsPrefix(TempDir, Resolve(p)) /\ Len(Resolve(p)) > Len(TempDir)

\* the destination with its leading root stripped
Stripped(d) == IF d # <<>> /\ Head(d) = "/" THEN Tail(d) ELSE d

\* C8 as stated: every CopySpec's host_path is the temp directory joined
\* with the root-stripped destination and lies strictly inside the temp
\* directory.
C8_AsStated ==
  \A i \in DOMAIN copies :
    /\ copies[i].host_path = TempDir \o Stripped(copies[i].destination)
    /\ StrictlyInsideTempDir(copies[i].host_path)

\* the same CopySpec restored twice in one disposable container
RestoredTwice ==
  /\ pc = "translate" /\ Len(copies) = 2 /\ copies[1] = copies[2]

DestContent(fs, spec) == TreeAt(fs, InContainer(spec.destination))
StagedContent(spec) == TreeAt(hostfs, Resolve(spec.host_path))

\* the container's file system after one restore of spec from the
\* image's content, its removal having succeeded or not
RestoredOnce(spec, removed) ==
  LET parent == DestinationParent(spec.destination)
      a == IF removed THEN ExecRm(source.stale, spec.destination)
           ELSE source.stale
  IN Cp(ExecMkdir(a, parent), hostfs, spec.host_path, parent)

ExpectedList(j) ==
  IF j = JList(<<"/bin/bash">>) THEN "[\"/bin/bash\"]"
  ELSE IF j = JList(<<"run", "it">>) THEN "[\"run\", \"it\"]"
  ELSE "[]"
IsSet(j) == j.t = "str" /\ j.v # <<"">>

ExpectedKeywords(config) ==
  <<"ENTRYPOINT", "CMD">>
    \o (IF IsSet(config.WorkingDir) THEN <<"WORKDIR">> ELSE <<>>)
    \o (IF IsSet(config.User) THEN <<"USER">> ELSE <<>>)

\* C10: the directives are, in the order entrypoint, command, workdir, user:
\* always an entrypoint and a command directive (the original value, or the
\* empty one when it is absent or empty), a workdir and a user directive
\* exactly when the field is set; the image of the final commit carries
\* these values and never the keep-alive entrypoint or command.
C10_DirectivesInOrder ==
  LET config == inspect_info.Config
  IN /\ changes # <<>> =>
          /\ [i \in DOMAIN changes |-> changes[i].keyword]
               = ExpectedKeywords(config)
          /\ changes[1].text = ExpectedList(config.Entrypoint)
          /\ changes[2].text = ExpectedList(config.Cmd)
          /\ \A i \in DOMAIN changes :
               /\ changes[i].keyword = "WORKDIR" =>
                    changes[i].text = config.WorkingDir.v[1]
               /\ changes[i].keyword = "USER" =>
                    changes[i].text = config.User.v[1]
     /\ final_meta # <<>> =>
          /\ final_meta[1].Entrypoint = ExpectedList(config.Entrypoint)
          /\ final_meta[1].Cmd = ExpectedList(config.Cmd)
          /\ final_meta[1].Entrypoint # KeepaliveMeta.Entrypoint
          /\ final_meta[1].Cmd # KeepaliveMeta.Cmd

\* C10 witness: no entrypoint, no command, working directory /app, no user
C10_Witness ==
  /\ final_meta # <<>>
  /\ inspect_info.Config = Cfg(JNull, JNull, JStr("/app"), JNull)
  /\ changes = <<Directive("ENTRYPOINT", "[]"), Directive("CMD", "[]"),
                 Directive("WORKDIR", "/app")>>
  /\ final_meta[1].Entrypoint = "[]" /\ final_meta[1].Cmd = "[]"

\* both runs have derived the name of their disposable container
BothNamed == temp_container_name # <<>> /\ other.temp_container_name # <<>>

\* C11 as stated: two concurrent runs against two different source
\* containers never derive the same disposable container name, and neither
\* run's start of its disposable container is refused because the other
\* run's container holds the name.
C11_AsStated ==
  /\ BothNamed => temp_container_name # other.temp_container_name
  /\ ~(Issued("run") /\ ~Succeeded("run")
         /\ Holds(other, temp_container_name))
  /\ ~(other.state = "failed" /\ dstate # "absent"
         /\ other.temp_container_name = temp_container_name)

\* the content staged for the k-th mount: its source tree at the k-th
\* CopySpec's host_path
StagedFor(k) ==
  {Entry(Resolve(copies[k].host_path) \o e.path, e.kind, k) :
     e \in SourceTree(bind_mounts[k].source)}

\* the number of times an operation was issued
Count(name) == Cardinality({i \in DOMAIN log : log[i].op = name})

\* the removeImage part of C12: none with keep_intermediate; without it a
\* run whose final commit succeeded does not fail, issues removeImage at
\* most once and has issued it exactly once when it returns
RemoveImageAsFlagged ==
  /\ keep_intermediate => ~Issued("rmi")
  /\ ~keep_intermediate /\ Succeeded("commit_final") =>
       /\ pc # "failed"
       /\ Count("rmi") <= 1
       /\ pc = "done" => Count("rmi") = 1

\* C12 as stated: with keep_temp the run never removes the temp directory or
\* the content staged for any CopySpec; with keep_intermediate it never
\* issues removeImage; without keep_intermediate, after a successful final
\* commit removeImage is issued exactly once and its failure does not fail
\* the run.
C12_AsStated ==
  /\ keep_temp =>
       /\ ~Issued("rmtree")
       /\ Issued("mkdtemp") => TempDirRemains
       /\ \A k \in DOMAIN copies : StagedFor(k) \subseteq hostfs
  /\ RemoveImageAsFlagged

\* C12 apart from what staging itself removes (it holds): with keep_temp
\* no step after staging changes the host's file system
C12_TeardownKeeps ==
  [][keep_temp /\ pc \notin {"mktemp", "stage"} => hostfs' = hostfs]_vars

\* the slug the default tags must carry for each of ContainerNames
ExpectedSlug(name) ==
  IF name = <<"/", "M", "y", " ", "A", "p", "p", "!">>
  THEN <<"M", "y", "-", "A", "p", "p">>
  ELSE IF name \in {<<"/", "d", "e", "v">>, <<"/", "d", "e", "v", "-">>}
  THEN <<"d", "e", "v">>
  ELSE IF name = <<"/", "-", "-">>
  THEN <<"c", "o", "n", "t", "a", "i", "n", "e", "r">>
  ELSE Tail(name)

TagPrefix ==
  <<"d", "e", "v", "c", "_", "t", "o", "_", "d", "o", "c", "k", "e", "r", "/">>
StageSuffix == <<"-", "s", "t", "a", "g", "e">>

\* C13: with no tag supplied the final tag is devc_to_docker/<slug>:<timestamp>,
\* the slug being the container name with every character outside
\* [A-Za-z0-9_.-] replaced by "-" and leading and trailing "-" and "."
\* trimmed, "container" when nothing is left; a supplied final tag is used as
\* it is; with no intermediate tag supplied the intermediate tag is the final
\* tag followed by -stage.
C13_DefaultNaming ==
  output_image # <<>> =>
    /\ sanitized_name = ExpectedSlug(source.Name)
    /\ \A i \in DOMAIN sanitized_name : sanitized_name[i] \in SafeChars
    /\ Head(sanitized_name) \notin {"-", "."}
    /\ sanitized_name[Len(sanitized_name)] \notin {"-", "."}
    /\ output_arg = <<>> =>
         output_image = TagPrefix \o ExpectedSlug(source.Name) \o <<":">> \o now
    /\ output_arg # <<>> => output_image = output_arg
    /\ intermediate_arg = <<>> =>
         intermediate_image = output_image \o StageSuffix
    /\ intermediate_arg # <<>> => intermediate_image = intermediate_arg

\* C13 witness: the run against "My App!" at 20240101120000 with no tag
\* supplied has returned
C13_Witness ==
  /\ pc = "done"
  /\ source.Name = <<"/", "M", "y", " ", "A", "p", "p", "!">>
  /\ output_arg = <<>> /\ intermediate_arg = <<>>
  /\ output_image =
       <<"d", "e", "v", "c", "_", "t", "o", "_", "d", "o", "c", "k", "e", "r",
         "/", "M", "y", "-", "A", "p", "p", ":", "2", "0", "2", "4", "0", "1",
         "0", "1", "1", "2", "0", "0", "0", "0">>
  /\ intermediate_image =
       <<"d", "e", "v", "c", "_", "t", "o", "_", "d", "o", "c", "k", "e", "r",
         "/", "M", "y", "-", "A", "p", "p", ":", "2", "0", "2", "4", "0", "1",
         "0", "1", "1", "2", "0", "0", "0", "0", "-", "s", "t", "a", "g", "e">>

\* the place of an operation in the pipeline's order: its step, then the
\* mount it is for, then its place within the restore of one CopySpec
Phase ==
  [inspect |-> 1, commit_stage |-> 2, mkdtemp |-> 3, copy |-> 4, run |-> 5,
   exec_rm |-> 6, exec_mkdir |-> 6, cp |-> 6, commit_final |-> 7, stop |-> 8,
   rm |-> 9, rmtree |-> 10, rmi |-> 11]
Within ==
  [inspect |-> 0, commit_stage |-> 0, mkdtemp |-> 0, copy |-> 0, run |-> 0,
   exec_rm |-> 1, exec_mkdir |-> 2, cp |-> 3, commit_final |-> 0, stop |-> 0,
   rm |-> 0, rmtree |-> 0, rmi |-> 0]
Place_(entry) == Phase[entry.op] * 1000 + entry.n * 10 + Within[entry.op]

\* the operations of a run in which nothing fails, for m mounts
RECURSIVE Repeat(_, _, _)
Repeat(ops, k, m) ==
  IF k > m THEN <<>>
  ELSE [i \in DOMAIN ops |-> Op(ops[i], TRUE, k)] \o Repeat(ops, k + 1, m)
FullRun(m, rmtree, rmi) ==
  <<Op("inspect", TRUE, 0), Op("commit_stage", TRUE, 0), Op("mkdtemp", TRUE, 0)>>
    \o Repeat(<<"copy">>, 1, m)
    \o <<Op("run", TRUE, 0)>>
    \o Repeat(<<"exec_rm", "exec_mkdir", "cp">>, 1, m)
    \o <<Op("commit_final", TRUE, 0), Op("stop", TRUE, 0), Op("rm", TRUE, 0)>>
    \o (IF rmtree THEN <<Op("rmtree", TRUE, 0)>> ELSE <<>>)
    \o (IF rmi THEN <<Op("rmi", TRUE, 0)>> ELSE <<>>)

\* C14: the operations are issued in the order inspect, intermediate commit,
\* temp directory creation, staging of the mounts in mount order, start of
\* the disposable container, restore of the CopySpecs in mount order, final
\* commit, stop, remove, temp directory removal, intermediate image removal;
\* a run in which nothing fails issues all of them; the final commit is
\* issued only after the copy-in of every CopySpec has succeeded, and the
\* intermediate image removal only after stop and remove were attempted.
C14_LinearOrder ==
  /\ LET place == [i \in DOMAIN log |-> Place_(log[i])]
     IN \A i \in 1..(Len(log) - 1) : place[i] < place[i + 1]
  /\ Issued("run") =>
       /\ Len(copies) = Len(bind_mounts)
       /\ \A k \in DOMAIN bind_mounts : SucceededFor("copy", k)
  /\ Issued("commit_final") =>
       \A k \in DOMAIN copies : SucceededFor("cp", k)
  /\ Issued("rmi") => Issued("stop") /\ Issued("rm")
  /\ pc = "done" /\ AllSucceeded =>
       log = FullRun(Len(bind_mounts), ~keep_temp, ~keep_intermediate)

\* C14 witness: a run with two mounts and no retention flag returned with
\* every operation having succeeded
C14_Witness ==
  /\ pc = "done" /\ AllSucceeded /\ Len(copies) = 2
  /\ ~keep_temp /\ ~keep_intermediate
  /\ log[Len(log)].op = "rmi" /\ Len(log) = 17

\* C15 as stated: a bind mount whose destination has no segment left after
\* its root is stripped, "/" or the empty destination, is never staged, the
\* run that reaches it fails with InvalidDestination, and the temp directory
\* itself is never a staging path.
C15_AsStated ==
  /\ \A k \in DOMAIN bind_mounts :
       Stripped(bind_mounts[k].destination) = <<>> =>
         /\ ~SucceededFor("copy", k)
         /\ pc = "stage" => n <= k
         /\ Issued("mkdtemp") /\ pc = "failed" /\ n = k
              /\ SourceExists(bind_mounts[k].source) =>
              exc = "InvalidDestination"
  /\ \A i \in DOMAIN copies : Resolve(copies[i].host_path) # TempDir

FailedFor(name, k) ==
  \E i \in DOMAIN log : log[i].op = name /\ ~log[i].ok /\ log[i].n = k

\* C16: within the restore of each CopySpec the engine operations are issued
\* in the order removal, creation of the parent directory, copy-in; after a
\* failed removal the creation of the parent and the copy-in of that CopySpec
\* are still issued; a failed creation of the parent or a failed copy-in is
\* fatal: nothing more of the restore is issued (no copy-in after a failed
\* creation, no later CopySpec), no final commit is issued and the run fails.
C16_RestoreSteps ==
  \A i \in {j \in DOMAIN log : Phase[log[j].op] = 6} :
    LET k == log[i].n
        last == i = Len(log)
    IN /\ log[i].op = "exec_rm" =>
            /\ log[i - 1] = IF k = 1 THEN Op("run", TRUE, 0)
                            ELSE Op("cp", TRUE, k - 1)
            /\ last => pc = "restore_mkdir" /\ exc = "none"
            /\ ~last => log[i + 1].op = "exec_mkdir" /\ log[i + 1].n = k
       /\ log[i].op = "exec_mkdir" =>
            /\ log[i - 1].op = "exec_rm" /\ log[i - 1].n = k
            /\ log[i].ok /\ last => pc = "restore_cp"
            /\ log[i].ok /\ ~last => log[i + 1].op = "cp" /\ log[i + 1].n = k
       /\ log[i].op = "cp" => log[i - 1] = Op("exec_mkdir", TRUE, k)
       /\ log[i].op \in {"exec_mkdir", "cp"} /\ ~log[i].ok =>
            /\ \A j \in DOMAIN log :
                 j > i => log[j].op \in {"stop", "rm", "rmtree"}
            /\ pc \in {"stop", "rm", "rmtree", "failed"}
            /\ exc = IF log[i].op = "cp" THEN "CalledProcessError"
                     ELSE "RestoreFailed"

\* C16 witness: the removal for the first CopySpec failed and its copy-in
\* succeeded all the same; the creation of the parent for the second failed
\* and the run failed without a copy-in for it
C16_Witness ==
  /\ pc = "failed" /\ exc = "RestoreFailed"
  /\ FailedFor("exec_rm", 1) /\ SucceededFor("cp", 1)
  /\ FailedFor("exec_mkdir", 2) /\ ~Issued("commit_final")

\* staging has completed: every mount has its CopySpec
StagingDone == copies # <<>> /\ Len(copies) = Len(bind_mounts) /\ pc = "run"

\* the tree at the k-th CopySpec's host_path is the k-th mount's source tree,
\* copied for that mount
HoldsOwnTree(k) ==
  TreeAt(hostfs, Resolve(copies[k].host_path))
    = {Entry(e.path, e.kind, k) : e \in SourceTree(bind_mounts[k].source)}

\* C17 as stated: when staging completes, every CopySpec's host_path exists
\* and holds the copy of its own mount's source tree, whatever the
\* destinations, equal and nested ones included.
C17_AsStated ==
  StagingDone =>
    \A k \in DOMAIN copies :
      /\ Exists(hostfs, Resolve(copies[k].host_path))
      /\ HoldsOwnTree(k)

\* C17 for mount lists in which no staging path is equal to or below
\* another (it holds there)
C17_DisjointDestinations ==
  (\A j, k \in DOMAIN copies :
     j # k => ~IsPrefix(Resolve(copies[j].host_path),
                        Resolve(copies[k].host_path)))
    => C17_AsStated

\* the k-th mount's source tree, as staged for the k-th CopySpec
OwnTree(k) == {Entry(e.path, e.kind, k) : e \in SourceTree(bind_mounts[k].source)}

\* C18 as stated: when the final commit is issued, the destination of every
\* CopySpec inside the disposable container holds the content staged for
\* that CopySpec, whatever the order of the destinations, nested ones
\* included.
C18_AsStated ==
  pc = "commit_final" =>
    \A k \in DOMAIN copies : OwnTree(k) \subseteq DestContent(cfs, copies[k])

\* C18 for mount lists in which no destination is empty and no restored
\* path is equal to or below another (it holds there)
C18_DisjointDestinations ==
  (\A j, k \in DOMAIN copies :
     /\ copies[k].destination # <<>>
     /\ j # k => ~IsPrefix(InContainer(copies[j].destination),
                           InContainer(copies[k].destination)))
    => C18_AsStated

\* C19 as stated: whatever tags are supplied, when the run returns its
\* result the final tag exists and names the image of the final commit.
C19_AsStated ==
  pc = "done" => [tag |-> output_image, kind |-> "final"] \in images

\* the start of this run's disposable container was refused
StartRefused == Issued("run") /\ ~Succeeded("run")

\* C20: stop and remove are issued only after this run's own start of the
\* disposable container succeeded; a run whose start failed, the name being
\* held by another run's container or for any other reason, fails without
\* issuing stop or remove, and the other run's container is never stopped or
\* removed by this run.
C20_OwnContainerOnly ==
  /\ Issued("stop") \/ Issued("rm") => Succeeded("run")
  /\ StartRefused => pc = "failed" /\ ~Issued("stop") /\ ~Issued("rm")
  /\ other.state \notin {"exited", "removed"}

\* C20 witness: the start was refused while the other run's running
\* container held the name, and the run failed
C20_Witness ==
  /\ pc = "failed" /\ StartRefused
  /\ other.state = "running" /\ Holds(other, temp_container_name)
  /\ other.Name # source.Name

====
